---- MODULE Spec2Model ----
(***************************************************************************)
(* AFLdict2filePass::runOnModule (instrumentation/afl-llvm-dict2file.so.cc) *)
(* as a state machine: the pass walks the functions of a module, and for    *)
(* every call instruction classifies the callee, resolves the two operands  *)
(* to constant byte strings, reconciles the length and appends one escaped  *)
(* line to the dictionary file.                                             *)
(*                                                                         *)
(* Byte strings are sequences of 0..255.  A C buffer is the sequence of its *)
(* initialised bytes, index k of the buffer being element k+1.              *)
(***************************************************************************)
EXTENDS Integers, Sequences, FiniteSets, TLC

VARIABLES pc, fdOpen, opens, closes, valueMap, found,
          callInst, HasStr1, HasStr2, Str1, Str2, thestring, optLen, line,
          replaced

vars == <<pc, fdOpen, opens, closes, valueMap, found,
          callInst, HasStr1, HasStr2, Str1, Str2, thestring, optLen, line,
          replaced>>

(***************************************************************************)
(* Program constants (config.h) and the bounds of the model.               *)
(***************************************************************************)
MIN_AUTO_EXTRA == 3
MAX_AUTO_EXTRA == 32

\* functions of the module that are scanned
MaxFuncs == 2
\* dictionary entries one run may write
MaxFound == 1
\* longest initializer array enumerated byte by byte
MaxArr == 4

(***************************************************************************)
(* Values (llvm::Value) that may appear as call operands.                  *)
(*   ref  : a run-time value (alloca, argument, load ...), opaque           *)
(*   lit  : address of a constant global whose initializer is the byte      *)
(*          array arr (a string literal)                                    *)
(*   glob : address of a non-constant global with initializer arr           *)
(***************************************************************************)
Ref(n) == [k |-> "ref", id |-> n, arr |-> <<>>]
Lit(a) == [k |-> "lit", id |-> "", arr |-> a]
Glob(a) == [k |-> "glob", id |-> "", arr |-> a]

Strcmp == "strcmp"
Memcmp == "memcmp"
Strncmp == "strncmp"
Strcasecmp == "strcasecmp"
Strncasecmp == "strncasecmp"
IntMemcpy == "llvm.memcpy.p0i8.p0i8.i64"
\* any callee the classifier rejects: no callee, other calling convention,
\* other name, or a compare name with a foreign prototype
Other == "other"

CmpNames == {Strcmp, Memcmp, Strncmp, Strcasecmp, Strncasecmp}
TwoArgNames == {Strcmp, Strcasecmp}

\* A call site: callee name, the first two operands, and the value of the
\* third operand when it is a ConstantInt (NotConst otherwise).
NotConst == 0 - 1
Site(n, p, q, l) == [name |-> n, a0 |-> p, a1 |-> q, len |-> l]
NoInst == [name |-> "", a0 |-> Ref(""), a1 |-> Ref(""), len |-> NotConst]

(***************************************************************************)
(* std::string / C string helpers                                          *)
(***************************************************************************)
\* std::string::find('\0', 0): 0-based position, NPos (npos) when absent
NPos == 0 - 1
Find0(s) ==
  IF \E i \in 1..Len(s) : s[i] = 0
  THEN (CHOOSE i \in 1..Len(s) : s[i] = 0 /\ \A j \in 1..(i - 1) : s[j] # 0) - 1
  ELSE NPos

\* offset + 1 in size_t arithmetic: npos + 1 wraps to 0
Inc(offset) == IF offset = NPos THEN 0 ELSE offset + 1

\* std::string::substr(0, n)
Substr(s, n) == SubSeq(s, 1, IF n < Len(s) THEN n ELSE Len(s))

\* strlen of a C buffer whose initialised bytes hold a NUL
StrLen(buf) == Find0(buf)

\* buf[j] = c, where j is at most the initialised length
Poke(buf, j, c) ==
  IF j < Len(buf) THEN [buf EXCEPT ![j + 1] = c] ELSE Append(buf, c)

\* strcat(buf, s): s and its NUL are copied to the first NUL of buf; bytes of
\* buf beyond the copy keep their value
StrCat(buf, s) ==
  LET n == StrLen(buf)
      head == SubSeq(buf, 1, n) \o s \o <<0>>
  IN  head \o SubSeq(buf, Len(head) + 1, Len(buf))

\* the C string held by a buffer
CStr(buf) == SubSeq(buf, 1, StrLen(buf))

(***************************************************************************)
(* Resolution of an operand (lines 217-367)                                *)
(***************************************************************************)
\* StringRef after trimming at the first NUL (TrimAtNul)
TrimAtNul(a) == IF Find0(a) = NPos THEN a ELSE SubSeq(a, 1, Find0(a))

\* llvm::getConstantStringInfo(V, TmpStr): on success TmpStr is the constant
\* string trimmed at its first NUL; on failure it returns false and leaves
\* TmpStr as it was.  The result is the value of TmpStr after the call.
GetConstantStringInfo(v, TmpStr) ==
  IF v.k = "lit" THEN TrimAtNul(v.arr) ELSE TmpStr

\* the initializer is a ConstantDataArray (an all-zero initializer is a
\* ConstantAggregateZero instead)
IsConstantDataArray(a) == \E i \in 1..Len(a) : a[i] # 0

\* dyn_cast chain of lines 255-263 / 329-338: a constant GEP on a global
\* variable that has a ConstantDataArray initializer
HasGlobalInit(v) == v.k \in {"lit", "glob"} /\ IsConstantDataArray(v.arr)

\* valueMap[k]: the saved string, <<>> when there is none (no entry, or the
\* null pointer operator[] default-constructs)
Lookup(vm, v) == IF v \in DOMAIN vm THEN vm[v] ELSE <<>>

(***************************************************************************)
(* Classification (lines 155-211)                                          *)
(***************************************************************************)
isStrcmp(s) == s.name = Strcmp
isMemcmp(s) == s.name = Memcmp
isStrncmp(s) == s.name = Strncmp
isStrcasecmp(s) == s.name = Strcasecmp
isStrncasecmp(s) == s.name = Strncasecmp
isIntMemcpy(s) == s.name = IntMemcpy

\* lines 175-177 and 209-211: the site is looked at
Recognised(s) ==
  isStrcmp(s) \/ isMemcmp(s) \/ isStrncmp(s) \/ isStrcasecmp(s) \/
  isStrncasecmp(s) \/ isIntMemcpy(s)

(***************************************************************************)
(* The two operands (lines 217-367)                                        *)
(***************************************************************************)
\* lines 220-231: TmpStr starts empty
FirstTmpStr(s) == GetConstantStringInfo(s.a0, <<>>)

\* line 233: the same TmpStr is handed to the second call
SecondTmpStr(s) == GetConstantStringInfo(s.a1, FirstTmpStr(s))

\* lines 221-231
Literal1(s) ==
  LET t == FirstTmpStr(s)
  IN  IF t = <<>> THEN [has |-> FALSE, str |-> <<>>] ELSE [has |-> TRUE, str |-> t]

\* lines 233-243
Literal2(s) ==
  LET t == SecondTmpStr(s)
  IN  IF t = <<>> THEN [has |-> FALSE, str |-> <<>>] ELSE [has |-> TRUE, str |-> t]

\* lines 253-276 and 327-351: the initializer of a global variable
GlobalInit(v, r) ==
  IF ~r.has /\ HasGlobalInit(v) THEN [has |-> TRUE, str |-> v.arr] ELSE r

\* lines 313-325 and 355-367: a string saved for a local variable
Saved(vm, v, r) ==
  IF ~r.has /\ Lookup(vm, v) # <<>>
  THEN [has |-> TRUE, str |-> Lookup(vm, v)]
  ELSE r

\* second operand as the memcpy branch sees it (line 280)
Source(s) == GlobalInit(s.a1, Literal2(s))

\* second and first operand of a comparison (line 369)
Operand2(s, vm) == Saved(vm, s.a1, Source(s))
Operand1(s, vm) == Saved(vm, s.a0, GlobalInit(s.a0, Literal1(s)))

(***************************************************************************)
(* The memcpy branch (lines 280-309)                                       *)
(***************************************************************************)
\* lines 284-297: the literal was copied with its terminator
CopiedString(str, len) ==
  IF len # NotConst /\ Len(str) + 1 = len THEN Append(str, 0) ELSE str

Store_KeepFirst(vm, key, str) ==
  IF Lookup(vm, key) # <<>> THEN vm
  ELSE [v \in DOMAIN vm \cup {key} |-> IF v = key THEN str ELSE vm[v]]

\* line 299: valueMap[Str1P] = new std::string(Str2)
Store(vm, key, str) ==
  [v \in DOMAIN vm \cup {key} |-> IF v = key THEN str ELSE vm[v]]

(***************************************************************************)
(* Length reconciliation (lines 369-415, 440-443)                          *)
(***************************************************************************)
OneConst_Either(h1, h2) == h1 \/ h2

\* line 370: exactly one operand is a constant
OneConst(h1, h2) == h1 # h2

\* line 381
HasLengthArg(s) == isMemcmp(s) \/ isStrncmp(s) \/ isStrncasecmp(s)

\* lines 379-397: [thestring, optLen, addedNull]
LengthArg(s, str) ==
  IF HasLengthArg(s) /\ s.len # NotConst
  THEN IF Len(str) + 1 = s.len
       THEN [thestring |-> Append(str, 0), optLen |-> s.len, addedNull |-> TRUE]
       ELSE [thestring |-> str, optLen |-> s.len, addedNull |-> FALSE]
  ELSE [thestring |-> str, optLen |-> Len(str), addedNull |-> FALSE]

IsStringCompare_Unbounded(s) == isStrcmp(s) \/ isStrcasecmp(s)

\* line 401: "if this is a string compare function"
IsStringCompare(s) == ~isMemcmp(s)

\* lines 399-415: [thestring, optLen]
Terminate(s, r) ==
  IF IsStringCompare(s)
  THEN LET t == IF ~r.addedNull THEN Append(r.thestring, 0) ELSE r.thestring
           n == IF ~r.addedNull THEN r.optLen + 1 ELSE r.optLen
           offset == Find0(t)
           m == IF Inc(offset) < n THEN Inc(offset) ELSE n
       IN  [thestring |-> Substr(t, m), optLen |-> m]
  ELSE [thestring |-> r.thestring, optLen |-> r.optLen]

\* lines 379-415: what is handed to the emitter
Reconcile(s, str) == Terminate(s, LengthArg(s, str))

ClampLen_None(n) == n

\* line 441
ClampLen(n) == IF n > MAX_AUTO_EXTRA THEN MAX_AUTO_EXTRA ELSE n

\* lines 440-441
FinalLen(str) == ClampLen(Len(str))

\* line 442
TooShort(n) == n < MIN_AUTO_EXTRA

(***************************************************************************)
(* The emitter (lines 445-469)                                             *)
(***************************************************************************)
\* isprint() in the "C" locale, for an argument in 0..127
IsPrint(c) == c >= 32 /\ c <= 126

HexDigit(n) == IF n < 10 THEN 48 + n ELSE 87 + n

\* sprintf(tmp, "\\x%02x", c) for 0 <= c <= 255
Escape(c) == <<92, 120, HexDigit(c \div 16), HexDigit(c % 16)>>

\* lines 448-466, from index i on: the buffer and j when the loop ends.
\* The escape is appended with strcat and j stays where it was.
RECURSIVE RenderLoop(_, _, _, _, _)
RenderLoop(ptr, n, i, buf, j) ==
  IF i >= n THEN [buf |-> buf, j |-> j]
  ELSE LET c == ptr[i + 1]
       IN  IF IsPrint(c)
           THEN RenderLoop(ptr, n, i + 1, Poke(buf, j, c), j + 1)
           ELSE IF i + 1 # n \/ c # 0
                THEN RenderLoop(ptr, n, i + 1, StrCat(Poke(buf, j, 0), Escape(c)), j)
                ELSE RenderLoop(ptr, n, i + 1, buf, j)

\* lines 445-469: the bytes handed to write()
Render(str, n) ==
  LET r == RenderLoop(str, n, 0, <<34, 0>>, 1)
  IN  CStr(StrCat(Poke(r.buf, r.j, 0), <<34, 10>>))

\* a byte the loop reads as a negative char: isprint() is undefined for it
\* and "\\x%02x" prints the sign-extended value, eleven bytes into tmp[8]
HasNegativeChar(str, n) == \E i \in 1..n : str[i] >= 128

\* what a build can do there: the overflow lands in padding (or char is
\* unsigned) and the loop goes on, or the process is killed
Outcomes(str, n) == IF HasNegativeChar(str, n) THEN {"goes on", "killed"} ELSE {"goes on"}

(***************************************************************************)
(* One call instruction (the body of the loop, lines 151-475)              *)
(*                                                                         *)
(* callInst is the instruction the body ran on last; HasStr1, Str1,         *)
(* HasStr2, Str2, thestring and optLen are its locals when the body ended;  *)
(* line is what it handed to a successful write(), <<>> when it wrote       *)
(* nothing; replaced is the string a memcpy site's store took the place of  *)
(* (the old std::string is never freed).                                    *)
(***************************************************************************)
NoStr == [has |-> FALSE, str |-> <<>>]

\* the locals when the body ends, and whether it reaches line 445
Body(s, vm) ==
  IF ~Recognised(s)
  THEN [o1 |-> NoStr, o2 |-> NoStr, thestring |-> <<>>, optLen |-> 0,
        valueMap |-> vm, emit |-> FALSE]
  ELSE IF isIntMemcpy(s)
  THEN LET src == Source(s)
           str == CopiedString(src.str, s.len)
       IN  IF src.has
           THEN [o1 |-> Literal1(s), o2 |-> [has |-> TRUE, str |-> str],
                 thestring |-> <<>>, optLen |-> 0,
                 valueMap |-> Store(vm, s.a0, str), emit |-> FALSE]
           ELSE [o1 |-> Literal1(s), o2 |-> src, thestring |-> <<>>, optLen |-> 0,
                 valueMap |-> vm, emit |-> FALSE]
  ELSE LET o1 == Operand1(s, vm)
           o2 == Operand2(s, vm)
       IN  IF ~OneConst(o1.has, o2.has)
           THEN [o1 |-> o1, o2 |-> o2, thestring |-> <<>>, optLen |-> 0,
                 valueMap |-> vm, emit |-> FALSE]
           ELSE LET r == Reconcile(s, IF o1.has THEN o1.str ELSE o2.str)
                    n == FinalLen(r.thestring)
                IN  [o1 |-> o1, o2 |-> o2, thestring |-> r.thestring, optLen |-> n,
                     valueMap |-> vm, emit |-> ~TooShort(n)]

CallSite(s) ==
  /\ pc = "scan"
  /\ found < MaxFound
  /\ \E b \in {Body(s, valueMap)} :
         /\ callInst' = s
         /\ HasStr1' = b.o1.has
         /\ Str1' = b.o1.str
         /\ HasStr2' = b.o2.has
         /\ Str2' = b.o2.str
         /\ thestring' = b.thestring
         /\ optLen' = b.optLen
         /\ valueMap' = b.valueMap
         /\ replaced' = IF b.valueMap # valueMap THEN Lookup(valueMap, s.a0) ELSE <<>>
         /\ IF b.emit
            THEN \E o \in Outcomes(b.thestring, b.optLen) :
                   IF o = "killed" \/ ~fdOpen
                   THEN \* line 470: write() on a closed descriptor fails, PFATAL
                        /\ pc' = "fatal"
                        /\ line' = <<>>
                        /\ found' = found
                   ELSE /\ pc' = "scan"
                        /\ line' = Render(b.thestring, b.optLen)
                        /\ found' = found + 1
            ELSE /\ pc' = "scan"
                 /\ line' = <<>>
                 /\ found' = found
  /\ UNCHANGED <<fdOpen, opens, closes>>

(***************************************************************************)
(* The pass around the loop body                                           *)
(***************************************************************************)
NoLocals ==
  /\ callInst' = NoInst
  /\ HasStr1' = FALSE
  /\ Str1' = <<>>
  /\ HasStr2' = FALSE
  /\ Str2' = <<>>
  /\ thestring' = <<>>
  /\ optLen' = 0
  /\ line' = <<>>
  /\ replaced' = <<>>

\* lines 105-111: AFL_LLVM_DICT2FILE must be an absolute path that open()
\* can open or create
Start ==
  /\ pc = "start"
  /\ \E env \in {"ok", "not absolute", "open fails"} :
       IF env = "ok"
       THEN pc' = "head" /\ fdOpen' = TRUE /\ opens' = opens + 1
       ELSE pc' = "fatal" /\ UNCHANGED <<fdOpen, opens>>
  /\ UNCHANGED <<closes, valueMap, found, callInst, HasStr1, HasStr2,
                 Str1, Str2, thestring, optLen, line, replaced>>

\* lines 115-117: the iterator reaches the next function of the module that
\* isIgnoreFunction lets through (an ignored one is passed over, nothing
\* changes); closes counts the functions scanned so far
EnterFunction ==
  /\ pc = "head"
  /\ closes < MaxFuncs
  /\ pc' = "scan"
  /\ UNCHANGED <<fdOpen, opens, closes, valueMap, found, callInst, HasStr1,
                 HasStr2, Str1, Str2, thestring, optLen, line, replaced>>

\* lines 477-483: the function has no more instructions; close(fd)
EndFunction ==
  /\ pc = "scan"
  /\ pc' = "head"
  /\ fdOpen' = FALSE
  /\ closes' = closes + 1
  /\ NoLocals
  /\ UNCHANGED <<opens, valueMap, found>>

\* lines 485-496: the module has no more functions
Finish ==
  /\ pc = "head"
  /\ pc' = "done"
  /\ UNCHANGED <<fdOpen, opens, closes, valueMap, found, callInst,
                 HasStr1, HasStr2, Str1, Str2, thestring, optLen, line, replaced>>

\* lines 87-89
Init ==
  /\ pc = "start"
  /\ fdOpen = FALSE
  /\ opens = 0
  /\ closes = 0
  /\ valueMap = <<>>
  /\ found = 0
  /\ callInst = NoInst
  /\ HasStr1 = FALSE
  /\ Str1 = <<>>
  /\ HasStr2 = FALSE
  /\ Str2 = <<>>
  /\ thestring = <<>>
  /\ optLen = 0
  /\ line = <<>>
  /\ replaced = <<>>

(***************************************************************************)
(* Modules of call sites over a few values: a run-time buffer x, a local    *)
(* d, the literal "abc" and a global initialised to "gh\0".                 *)
(***************************************************************************)
X == Ref("x")
D == Ref("d")
A == Lit(<<97, 98, 99, 0>>)
G == Glob(<<103, 104, 0>>)

Operands == {X, D, A, G}
Destinations == {D, A}
\* the third operand: not a constant, strlen("abc"), sizeof("abc")
Lens == {NotConst, Len(A.arr) - 1, Len(A.arr)}

Sites ==
  {Site(n, p, q, NotConst) : n \in TwoArgNames, p \in Operands, q \in Operands}
  \cup {Site(n, p, q, l) : n \in CmpNames \ TwoArgNames, p \in Operands, q \in Operands, l \in Lens}
  \cup {Site(IntMemcpy, p, q, l) : p \in Destinations, q \in Operands, l \in Lens}
  \cup {Site(Other, X, X, NotConst)}

Next ==
  \/ Start
  \/ EnterFunction
  \/ \E s \in Sites : CallSite(s)
  \/ EndFunction
  \/ Finish

Spec == Init /\ [][Next]_vars

(***************************************************************************)
(* Modules with one call site per function, a comparison of the run-time    *)
(* buffer with a literal or a global whose initializer ranges over every    *)
(* byte array up to MaxArr bytes of a NUL, a control byte, a space, a       *)
(* letter and a byte above 127, and over arrays around MAX_AUTO_EXTRA.      *)
(***************************************************************************)
Alphabet == {0, 1, 32, 97, 200}

Arrays ==
  UNION {[1..n -> Alphabet] : n \in 1..MaxArr}
  \cup {[i \in 1..n |-> 97] : n \in (MAX_AUTO_EXTRA - 1)..(MAX_AUTO_EXTRA + 2)}

ByteLens == {NotConst} \cup (0..(MaxArr + 1))

ByteLensOf(n) == IF n \in TwoArgNames THEN {NotConst} ELSE ByteLens

FirstCallSite ==
  /\ callInst = NoInst
  /\ \E n \in CmpNames, k \in {"lit", "glob"}, a \in Arrays :
       \E l \in ByteLensOf(n) :
         CallSite(Site(n, X, IF k = "lit" THEN Lit(a) ELSE Glob(a), l))

NextBytes ==
  \/ Start
  \/ EnterFunction
  \/ FirstCallSite
  \/ EndFunction
  \/ Finish

SpecBytes == Init /\ [][NextBytes]_vars

(***************************************************************************)
(* Vocabulary of the properties, stated without the pass's own locals       *)
(***************************************************************************)
IsCompare(s) == s.name \in CmpNames
IsCopy(s) == s.name = IntMemcpy
IsBounded(s) == s.name \in CmpNames \ TwoArgNames

\* rule 1: a direct, non-empty literal
ByLiteral(v) == v.k = "lit" /\ v.arr # <<>> /\ v.arr[1] # 0

\* rule 2: the address of a global with a constant byte-array initializer
ByGlobal(v) == v.k \in {"lit", "glob"} /\ \E i \in 1..Len(v.arr) : v.arr[i] # 0

\* rule 3: a non-empty binding
ByBinding(v, vm) == v \in DOMAIN vm /\ vm[v] # <<>>

ResolvesStatically(v) == ByLiteral(v) \/ ByGlobal(v)
Resolves(v, vm) == ResolvesStatically(v) \/ ByBinding(v, vm)

\* the bytes rules 1 and 2 give
StaticBytes(v) ==
  IF ByLiteral(v)
  THEN IF \E i \in 1..Len(v.arr) : v.arr[i] = 0
       THEN SubSeq(v.arr, 1, (CHOOSE i \in 1..Len(v.arr) :
                               v.arr[i] = 0 /\ \A j \in 1..(i - 1) : v.arr[j] # 0) - 1)
       ELSE v.arr
  ELSE IF ByGlobal(v) THEN v.arr ELSE <<>>

\* what a copy site copies: the source bytes, and a zero byte when N = L + 1
CopyContent(s) ==
  IF ResolvesStatically(s.a1)
  THEN IF s.len = Len(StaticBytes(s.a1)) + 1
       THEN StaticBytes(s.a1) \o <<0>>
       ELSE StaticBytes(s.a1)
  ELSE <<>>

\* the body ran on a comparison that had exactly one constant operand
Candidate == IsCompare(callInst) /\ HasStr1 # HasStr2

\* the resolved bytes of that operand
Resolved == IF HasStr1 THEN Str1 ELSE Str2

\* the bytes of t up to and including its first zero
ThroughFirstZero(t) ==
  IF \E i \in 1..Len(t) : t[i] = 0
  THEN SubSeq(t, 1, CHOOSE i \in 1..Len(t) : t[i] = 0 /\ \A j \in 1..(i - 1) : t[j] # 0)
  ELSE t

\* the dictionary line of a content: quote, bytes 33..126 verbatim, any other
\* byte as \xHH, a zero that is the last byte left out, quote, newline
RECURSIVE QuotedFrom(_, _)
QuotedFrom(c, i) ==
  IF i > Len(c) THEN <<>>
  ELSE (IF c[i] >= 33 /\ c[i] <= 126 THEN <<c[i]>>
        ELSE IF i = Len(c) /\ c[i] = 0 THEN <<>>
        ELSE <<92, 120, HexDigit(c[i] \div 16), HexDigit(c[i] % 16)>>)
       \o QuotedFrom(c, i + 1)

DictLine(c) == <<34>> \o QuotedFrom(c, 1) \o <<34, 10>>

\* the entry a site would add to an open dictionary
EntryOf(s, vm) ==
  LET b == Body(s, vm)
  IN  IF b.emit THEN Render(b.thestring, b.optLen) ELSE <<>>

Swapped(s) == Site(s.name, s.a1, s.a0, s.len)

(***************************************************************************)
(* C1: every entry written has a length, that of the candidate after        *)
(* length reconciliation, within [MIN_AUTO_EXTRA, MAX_AUTO_EXTRA]: a        *)
(* candidate shorter than MIN_AUTO_EXTRA is not written and the scan goes   *)
(* on, a candidate longer than MAX_AUTO_EXTRA is written with only its      *)
(* first MAX_AUTO_EXTRA bytes.                                              *)
(***************************************************************************)
C1_EntryLengthWithinBounds ==
  /\ line # <<>> =>
       /\ optLen >= MIN_AUTO_EXTRA
       /\ optLen <= MAX_AUTO_EXTRA
       /\ optLen <= Len(thestring)
       /\ Len(thestring) > MAX_AUTO_EXTRA => optLen = MAX_AUTO_EXTRA
       /\ Len(line) <= optLen + 3
  /\ (Candidate /\ Len(thestring) < MIN_AUTO_EXTRA) => (line = <<>> /\ pc = "scan")

C1_Witness == line # <<>> /\ Len(thestring) > MAX_AUTO_EXTRA

(***************************************************************************)
(* C2: a comparison site writes an entry only if exactly one of its two     *)
(* operands resolves (literal, global initializer or binding) and the       *)
(* other does not; when both or neither resolve nothing is written, the     *)
(* entry count is unchanged and the scan continues.                         *)
(***************************************************************************)
C2_ExactlyOneResolved ==
  [][(pc = "scan" /\ IsCompare(callInst')) =>
       LET r0 == Resolves(callInst'.a0, valueMap)
           r1 == Resolves(callInst'.a1, valueMap)
       IN  /\ (found' # found \/ line' # <<>>) => (r0 # r1)
           /\ (r0 = r1) => /\ line' = <<>>
                           /\ found' = found
                           /\ pc' = "scan"
                           /\ valueMap' = valueMap]_vars

C2_Witness ==
  /\ IsCompare(callInst)
  /\ line # <<>>
  /\ Resolves(callInst.a0, valueMap) # Resolves(callInst.a1, valueMap)

(***************************************************************************)
(* C3: the emitted line is a double quote, each content byte in order as    *)
(* itself (33..126) or as a two-hex-digit escape (any other byte), a zero   *)
(* that is the last byte left out, a double quote and a newline.            *)
(***************************************************************************)
C3_LineIsEscapedContent ==
  line # <<>> => line = DictLine(SubSeq(thestring, 1, optLen))

(***************************************************************************)
(* C4: the output handle is open whenever a function is scanned, and is     *)
(* closed at most once, after the last function.                            *)
(***************************************************************************)
C4_HandleOpenWhileScanning ==
  /\ pc = "scan" => fdOpen
  /\ closes <= 1

(***************************************************************************)
(* C5 as claimed: after a copy site into a local d the binding of d is the  *)
(* content of that copy, never that of an earlier one.                      *)
(***************************************************************************)
C5_BindingIsLastCopy ==
  [][(pc = "scan" /\ IsCopy(callInst') /\ callInst'.a0.k = "ref") =>
       Lookup(valueMap', callInst'.a0) = CopyContent(callInst')]_vars

(***************************************************************************)
(* C5 as amended: the binding of an otherwise unresolved destination d is   *)
(* the content of the most recent copy into d whose source resolved by      *)
(* literal or global initializer (a zero byte appended when N = L + 1); a   *)
(* copy whose source does not resolve leaves it as it was, no other site    *)
(* changes it, and a later comparison of d with an unresolved operand       *)
(* resolves d to that binding.                                              *)
(***************************************************************************)
C5_BindingIsLastResolvedCopy ==
  [][(pc = "scan" /\ callInst' # NoInst) =>
       LET s == callInst'
       IN  /\ (IsCopy(s) /\ ~ResolvesStatically(s.a0) /\ ResolvesStatically(s.a1)) =>
                Lookup(valueMap', s.a0) = CopyContent(s)
           /\ (IsCopy(s) /\ ~ResolvesStatically(s.a0) /\ ~ResolvesStatically(s.a1)) =>
                valueMap' = valueMap
           /\ ~IsCopy(s) => valueMap' = valueMap
           /\ (IsCompare(s) /\ ~ResolvesStatically(s.a1) /\ ByBinding(s.a1, valueMap)
                 /\ ~Resolves(s.a0, valueMap)) =>
                (HasStr2' /\ Str2' = valueMap[s.a1] /\ ~HasStr1')
           /\ (IsCompare(s) /\ ~ResolvesStatically(s.a0) /\ ByBinding(s.a0, valueMap)
                 /\ ~Resolves(s.a1, valueMap)) =>
                (HasStr1' /\ Str1' = valueMap[s.a0] /\ ~HasStr2')]_vars

C5_Witness ==
  /\ IsCopy(callInst)
  /\ callInst.a0 = D
  /\ replaced # <<>>
  /\ replaced # Lookup(valueMap, D)
  /\ Lookup(valueMap, D) = CopyContent(callInst)

(***************************************************************************)
(* C6: after copy(dst, s, L + 1) has bound dst to s and one zero byte, for  *)
(* a literal s of a length within bounds, strcmp(y, dst) with y unresolved  *)
(* keeps s and the one terminator as its content and emits one line, s      *)
(* with the trailing zero dropped.                                          *)
(***************************************************************************)
C6_CopyThenCompareEmits ==
  (/\ callInst.name \in TwoArgNames
   /\ ~Resolves(callInst.a0, valueMap)
   /\ ~ResolvesStatically(callInst.a1)
   /\ ByBinding(callInst.a1, valueMap)
   /\ LET b == valueMap[callInst.a1]
      IN  /\ Len(b) - 1 >= MIN_AUTO_EXTRA
          /\ Len(b) - 1 <= MAX_AUTO_EXTRA
          /\ b[Len(b)] = 0
          /\ \A i \in 1..(Len(b) - 1) : b[i] # 0)
  => /\ thestring = valueMap[callInst.a1]
     /\ line = DictLine(valueMap[callInst.a1])

(***************************************************************************)
(* C7: a copy site writes nothing and leaves the entry count alone; it can  *)
(* only set the binding of its destination, and when its source resolves    *)
(* neither by literal nor by global initializer it changes no state.        *)
(***************************************************************************)
C7_CopySiteFrame ==
  [][(pc = "scan" /\ IsCopy(callInst')) =>
       /\ found' = found
       /\ line' = <<>>
       /\ pc' = "scan"
       /\ \A v \in (DOMAIN valueMap \cup DOMAIN valueMap') \ {callInst'.a0} :
            Lookup(valueMap', v) = Lookup(valueMap, v)
       /\ ~ResolvesStatically(callInst'.a1) => valueMap' = valueMap]_vars

(***************************************************************************)
(* C8: a comparison whose first operand is a direct non-empty literal and   *)
(* whose second operand is unresolved produces the entry of the same        *)
(* comparison with the operands exchanged.                                  *)
(***************************************************************************)
C8_SymmetricInOperands ==
  (/\ pc = "scan"
   /\ fdOpen
   /\ IsCompare(callInst)
   /\ ByLiteral(callInst.a0)
   /\ ~Resolves(callInst.a1, valueMap))
  => line = EntryOf(Swapped(callInst), valueMap)

(***************************************************************************)
(* C9 as claimed: for a bounded kind with a constant length N and a         *)
(* resolved content of L bytes, N # L + 1, the content handed to the        *)
(* emitter is the L resolved bytes, nothing appended.                       *)
(***************************************************************************)
C9_BoundedKeepsContent ==
  (/\ Candidate
   /\ IsBounded(callInst)
   /\ callInst.len # NotConst
   /\ callInst.len # Len(Resolved) + 1)
  => thestring = Resolved

(***************************************************************************)
(* C9 as amended: the terminator is appended, and the content cut after     *)
(* its first zero byte, for every kind but memcmp.  For memcmp with a       *)
(* constant N # L + 1 the content handed to the emitter is the L resolved   *)
(* bytes, and it is skipped when L < MIN_AUTO_EXTRA; for strcmp and         *)
(* strcasecmp, and for strncmp and strncasecmp with a constant N >= L,      *)
(* N # L + 1, it is the resolved bytes and one zero byte, cut after the     *)
(* first zero.                                                              *)
(***************************************************************************)
C9_OnlyMemcmpKeepsContent ==
  /\ (Candidate /\ isMemcmp(callInst) /\ callInst.len # NotConst
        /\ callInst.len # Len(Resolved) + 1) =>
       /\ thestring = Resolved
       /\ Len(Resolved) < MIN_AUTO_EXTRA => line = <<>>
  /\ (Candidate /\ callInst.name \in TwoArgNames) =>
       thestring = ThroughFirstZero(Resolved \o <<0>>)
  /\ (Candidate /\ IsBounded(callInst) /\ ~isMemcmp(callInst) /\ callInst.len # NotConst
        /\ callInst.len # Len(Resolved) + 1 /\ callInst.len >= Len(Resolved)) =>
       thestring = ThroughFirstZero(Resolved \o <<0>>)

C9_Witness ==
  /\ Candidate
  /\ isStrncmp(callInst)
  /\ callInst.len = Len(Resolved)
  /\ Len(Resolved) = MIN_AUTO_EXTRA
  /\ thestring = Resolved \o <<0>>
  /\ line # <<>>

(***************************************************************************)
(* C10: when the constant length N of a bounded comparison is smaller than  *)
(* the length L of the resolved string, the entry holds all L bytes of the  *)
(* string, up to MAX_AUTO_EXTRA, never a prefix N decides.                  *)
(***************************************************************************)
C10_FullStringSaved ==
  (/\ Candidate
   /\ IsBounded(callInst)
   /\ callInst.len # NotConst
   /\ callInst.len < Len(Resolved)
   /\ line # <<>>)
  => SubSeq(thestring, 1, optLen) =
       SubSeq(Resolved, 1, IF Len(Resolved) > MAX_AUTO_EXTRA
                           THEN MAX_AUTO_EXTRA ELSE Len(Resolved))

====
